---------------------------- MODULE Spec2Model ----------------------------
(***************************************************************************)
(* A model of pipulate.py: the model selector (get_best_model), the chat   *)
(* responder (generate_and_stream_ai_response, quick_message, ws) and the  *)
(* connection registry (users, on_conn, on_disconn).                       *)
(*                                                                         *)
(* A Python str is modelled as a sequence of one-character strings, so     *)
(* that str.split, str.join, re.findall, int() and f-strings are computed  *)
(* character by character, as the interpreter computes them.               *)
(***************************************************************************)
EXTENDS Integers, Sequences, FiniteSets, TLC

VARIABLES
    listing,       \* what GET /api/tags answers: [fail, names]
    model,         \* the module-level `model` (line 314): [exc, none, val]
    boot,          \* "import" while the module body runs, then "serving" or "crashed"
    users,         \* the registry dict: its table of entries, in insertion order
    tasks,         \* the coroutines of the event loop, in creation order
    todos,         \* the todos table: id -> done
    conversation,  \* the module-level conversation list
    connected      \* history: the ids whose last event is a connect -> its send

vars == <<listing, model, boot, users, tasks, todos, conversation, connected>>

-----------------------------------------------------------------------------
(* Characters and strings *)

Digits == <<"0", "1", "2", "3", "4", "5", "6", "7", "8", "9">>

IsDigit(ch) == \E d \in 1..10 : Digits[d] = ch

DigitVal(ch) == (CHOOSE d \in 1..10 : Digits[d] = ch) - 1

\* str.isspace for the characters the inputs use
IsSpace(ch) == ch \in {" ", "\n", "\t"}

\* The characters of the inputs in code point order; Ord gives the rank of a
\* character in it, which orders characters as Python's str comparison does.
CodePointOrder ==
    <<"\t", "\n", " ", "'", ",", "-", ".",
      "0", "1", "2", "3", "4", "5", "6", "7", "8", "9", ":",
      "A", "E", "I", "L", "M", "S", "T",
      "a", "b", "c", "d", "e", "i", "l", "m", "n", "o", "p", "r", "s", "t",
      "u", "v", "x", "y">>

Ord(ch) == CHOOSE k \in 1..Len(CodePointOrder) : CodePointOrder[k] = ch

\* str.lower on one character
LowerCh(ch) ==
    CASE ch = "A" -> "a"
      [] ch = "E" -> "e"
      [] ch = "I" -> "i"
      [] ch = "L" -> "l"
      [] ch = "M" -> "m"
      [] ch = "S" -> "s"
      [] ch = "T" -> "t"
      [] OTHER -> ch

Lower(s) == [k \in 1..Len(s) |-> LowerCh(s[k])]

StartsWith(s, p) == Len(s) >= Len(p) /\ SubSeq(s, 1, Len(p)) = p

\* s[k:] for a 1-based k
From(s, k) == SubSeq(s, k, Len(s))

\* x in s for strings: x occurs in s as a substring
Contains(s, x) ==
    \E k \in 1..(Len(s) - Len(x) + 1) : SubSeq(s, k, k + Len(x) - 1) = x

\* str < str: by code point at the first difference, a proper prefix is less
RECURSIVE StrLt(_, _)
StrLt(a, b) ==
    IF a = <<>> THEN b # <<>>
    ELSE IF b = <<>> THEN FALSE
    ELSE IF a[1] = b[1] THEN StrLt(Tail(a), Tail(b))
    ELSE Ord(a[1]) < Ord(b[1])

\* int(x) for a run of decimal digits
RECURSIVE ToInt(_)
ToInt(s) ==
    IF s = <<>> THEN 0
    ELSE 10 * ToInt(SubSeq(s, 1, Len(s) - 1)) + DigitVal(s[Len(s)])

\* str(n) for n >= 0, as an f-string formats an int
RECURSIVE Str(_)
Str(n) ==
    IF n < 10 THEN <<Digits[n + 1]>>
    ELSE Str(n \div 10) \o <<Digits[(n % 10) + 1]>>

\* the index after the longest run, starting at k, of characters that are
\* digits (digit = TRUE) or non-digits (digit = FALSE)
RECURSIVE RunEnd(_, _, _)
RunEnd(s, k, digit) ==
    IF k <= Len(s) /\ (IsDigit(s[k]) <=> digit) THEN RunEnd(s, k + 1, digit) ELSE k

\* the index after the longest run of whitespace (space = TRUE) or of
\* non-whitespace (space = FALSE) starting at k
RECURSIVE SpaceRunEnd(_, _, _)
SpaceRunEnd(s, k, space) ==
    IF k <= Len(s) /\ (IsSpace(s[k]) <=> space)
    THEN SpaceRunEnd(s, k + 1, space) ELSE k

\* str.split(): the maximal runs of non-whitespace, in order
RECURSIVE split(_)
split(s) ==
    LET b == SpaceRunEnd(s, 1, TRUE)
        e == SpaceRunEnd(s, b, FALSE)
    IN IF b > Len(s) THEN <<>>
       ELSE <<SubSeq(s, b, e - 1)>> \o split(From(s, e))

\* sep.join(words)
RECURSIVE join(_, _)
join(sep, words) ==
    IF words = <<>> THEN <<>>
    ELSE IF Len(words) = 1 THEN words[1]
    ELSE words[1] \o sep \o join(sep, Tail(words))

\* str.split(sep) for a one-character sep: the fields between separators
RECURSIVE split_on(_, _)
split_on(s, sep) ==
    IF \A k \in 1..Len(s) : s[k] # sep THEN <<s>>
    ELSE LET p == CHOOSE k \in 1..Len(s) :
                    s[k] = sep /\ \A j \in 1..(k - 1) : s[j] # sep
         IN <<SubSeq(s, 1, p - 1)>> \o split_on(From(s, p + 1), sep)

-----------------------------------------------------------------------------
(* Model selector *)

MAX_LLM_RESPONSE_WORDS == 40

S_llama == <<"l", "l", "a", "m", "a">>
S_latest == <<"l", "a", "t", "e", "s", "t">>
S_llama2 == S_llama \o <<"2">>

\* A token of a parsed version: an int (isint, n) or a str (s)
IntTok(n) == [isint |-> TRUE, n |-> n, s |-> <<>>]
StrTok(s) == [isint |-> FALSE, n |-> 0, s |-> s]

\* re.findall(r'\d+|\D+', s): the alternating maximal runs of s
RECURSIVE findall_runs(_)
findall_runs(s) ==
    IF s = <<>> THEN <<>>
    ELSE LET e == RunEnd(s, 1, IsDigit(s[1]))
         IN <<SubSeq(s, 1, e - 1)>> \o findall_runs(From(s, e))

\* x.isdigit()
isdigit(x) == x # <<>> /\ \A k \in 1..Len(x) : IsDigit(x[k])

parse_version(version_string) ==
    LET runs == findall_runs(version_string)
    IN [k \in 1..Len(runs) |->
            IF isdigit(runs[k]) THEN IntTok(ToInt(runs[k])) ELSE StrTok(runs[k])]

\* a > b for two tokens: "True", "False", or "TypeError" for int against str
TokGt(a, b) ==
    IF a.isint # b.isint THEN "TypeError"
    ELSE IF a.isint THEN (IF a.n > b.n THEN "True" ELSE "False")
    ELSE IF StrLt(b.s, a.s) THEN "True" ELSE "False"

\* a > b for two lists of tokens: the first unequal pair decides, and
\* without one the longer list is the greater
ListGt(a, b) ==
    LET m == IF Len(a) < Len(b) THEN Len(a) ELSE Len(b)
        diff == {k \in 1..m : a[k] # b[k]}
    IN IF diff = {} THEN (IF Len(a) > Len(b) THEN "True" ELSE "False")
       ELSE LET d == CHOOSE k \in diff : \A j \in diff : k <= j
            IN TokGt(a[d], b[d])

\* the dotted version re.search(r'llama(\d+(?:\.\d+)*)', s) captures at k
RECURSIVE DottedEnd(_, _)
DottedEnd(s, k) ==
    IF k + 1 <= Len(s) /\ s[k] = "." /\ IsDigit(s[k + 1])
    THEN DottedEnd(s, RunEnd(s, k + 1, TRUE))
    ELSE k

MatchesAt(s, k) ==
    /\ k + 5 <= Len(s)
    /\ SubSeq(s, k, k + 4) = S_llama
    /\ IsDigit(s[k + 5])

\* base_version of key_func: group(1) of the leftmost match, or '0'
base_version(base_name) ==
    LET s == Lower(base_name)
        hits == {k \in 1..Len(s) : MatchesAt(s, k)}
    IN IF hits = {} THEN <<"0">>
       ELSE LET k == CHOOSE h \in hits : \A j \in hits : h <= j
            IN SubSeq(s, k + 5, DottedEnd(s, RunEnd(s, k + 5, TRUE)) - 1)

key_func(name) ==
    LET parts == split_on(name, ":")
        version == IF Len(parts) > 1 THEN parts[2] ELSE <<>>
    IN [base |-> parse_version(base_version(parts[1])),
        latest |-> IF version = S_latest THEN 1 ELSE 0,
        tag |-> parse_version(version)]

\* a > b for two keys, as tuples compare
KeyGt(a, b) ==
    IF a.base # b.base THEN ListGt(a.base, b.base)
    ELSE IF a.latest # b.latest
         THEN (IF a.latest > b.latest THEN "True" ELSE "False")
    ELSE IF a.tag # b.tag THEN ListGt(a.tag, b.tag)
    ELSE "False"

\* a result of a call: the exception raised ("" for none), and the value
\* returned, which is None (none) or a str (val)
Returns(val) == [exc |-> "", none |-> FALSE, val |-> val]
ReturnsNone == [exc |-> "", none |-> TRUE, val |-> <<>>]
Raises(exc) == [exc |-> exc, none |-> TRUE, val |-> <<>>]

\* max(items, key=key_func) from the k-th item on, with the maximum so far
RECURSIVE max_from(_, _, _)
max_from(items, k, best) ==
    IF k > Len(items) THEN Returns(best)
    ELSE LET gt == KeyGt(key_func(items[k]), key_func(best))
         IN IF gt = "TypeError" THEN Raises("TypeError")
            ELSE max_from(items, k + 1, IF gt = "True" THEN items[k] ELSE best)

is_llama(name) == StartsWith(Lower(name), S_llama)

get_best_llama_model(models) ==
    LET llama_models == SelectSeq(models, is_llama)
    IN IF llama_models = <<>> THEN ReturnsNone
       ELSE max_from(llama_models, 2, llama_models[1])

\* get_available_models: the names listed, or [] on a RequestException
get_available_models(answer) == IF answer.fail THEN <<>> ELSE answer.names

\* a selector without the fallback to the first listed model
get_best_model_default_only(answer) ==
    LET available_models == get_available_models(answer)
        best == get_best_llama_model(available_models)
    IN IF best.exc # "" THEN best
       ELSE IF ~best.none /\ best.val # <<>> THEN best
       ELSE Returns(S_llama2)

get_best_model(answer) ==
    LET available_models == get_available_models(answer)
        best == get_best_llama_model(available_models)
    IN IF best.exc # "" THEN best
       ELSE IF ~best.none /\ best.val # <<>> THEN best
       ELSE IF available_models # <<>> THEN Returns(available_models[1])
       ELSE Returns(S_llama2)

-----------------------------------------------------------------------------
(* The inputs of the model selector *)

N_llama2_latest == S_llama \o <<"2", ":">> \o S_latest
N_llama2_7b == S_llama \o <<"2", ":", "7", "b">>
N_llama3_1_7b == S_llama \o <<"3", ".", "1", ":", "7", "b">>
N_llama3_7b == S_llama \o <<"3", ":", "7", "b">>
N_llama3_instruct == S_llama \o <<"3", ":", "i", "n", "s", "t", "r", "u", "c", "t">>
N_llama3 == S_llama \o <<"3">>
N_llama3_9 == S_llama \o <<"3", ".", "9">>
N_llama3_10 == S_llama \o <<"3", ".", "1", "0">>
N_llama3_11 == S_llama \o <<"3", ".", "1", "1">>
N_Llama3_8b == <<"L", "l", "a", "m", "a", "3", ":", "8", "b">>
N_mistral_latest == <<"m", "i", "s", "t", "r", "a", "l", ":">> \o S_latest
N_codellama_7b == <<"c", "o", "d", "e">> \o S_llama \o <<":", "7", "b">>

ModelNames ==
    {N_llama2_latest, N_llama2_7b, N_llama3_1_7b, N_llama3_7b, N_llama3_instruct,
     N_llama3, N_llama3_9, N_llama3_10, N_llama3_11, N_Llama3_8b,
     N_mistral_latest, N_codellama_7b}

\* the longest list of models the backend lists
MaxModels == 3

RECURSIVE SeqsUpTo(_, _)
SeqsUpTo(S, n) ==
    IF n = 0 THEN {<<>>}
    ELSE LET shorter == SeqsUpTo(S, n - 1)
         IN shorter \cup {Append(q, x) : q \in {r \in shorter : Len(r) = n - 1}, x \in S}

\* the answers of GET /api/tags: a RequestException, or a list of names
Listings ==
    {[fail |-> TRUE, names |-> <<>>]}
        \cup {[fail |-> FALSE, names |-> q] : q \in SeqsUpTo(ModelNames, MaxModels)}

-----------------------------------------------------------------------------
(* The registry: a dict from str(id(ws)) to the connection's send *)

\* the connection identities and the send callbacks of the model
MaxConns == 2
MaxSends == 2
ConnIds == 1..MaxConns
Sends == 1..MaxSends

\* The entries a dict's table takes before an insertion rebuilds it. In
\* CPython a deleted entry stays in the table as a dummy, a new key is
\* appended, and an insertion into a full table rebuilds the table without
\* its dummies (a table of 8 takes 5 entries; the model's tables are smaller).
MaxSlots == 2

Dummy == [key |-> 0, val |-> 0]

\* the indexes of the live entries of a table
Live(d) == {k \in 1..Len(d) : d[k].key # 0}

\* len(d)
dict_len(d) == Cardinality(Live(d))

\* d.keys() as a set
Keys(d) == {d[k].key : k \in Live(d)}

\* the mapping a table holds: key -> value
Registered(d) == [c \in Keys(d) |-> d[CHOOSE k \in Live(d) : d[k].key = c].val]

Compact(d) == SelectSeq(d, LAMBDA e : e.key # 0)

\* d[c] = s
dict_set(d, c, s) ==
    IF c \in Keys(d)
    THEN [k \in 1..Len(d) |-> IF d[k].key = c THEN [key |-> c, val |-> s] ELSE d[k]]
    ELSE Append(IF Len(d) >= MaxSlots THEN Compact(d) ELSE d, [key |-> c, val |-> s])

\* a pop that leaves the entry in place
dict_pop_keeps_entry(d, c) == d

\* d.pop(c, None)
dict_pop(d, c) == [k \in 1..Len(d) |-> IF d[k].key = c THEN Dummy ELSE d[k]]

\* iter(d.values()): the position in the table, the len(d) it was made at,
\* and the number of values still expected
iter_new(d) == [pos |-> 1, used |-> dict_len(d), len |-> dict_len(d)]

\* next(it): "RuntimeError" (dictionary changed size during iteration, or
\* dictionary keys changed during iteration), "StopIteration", or "value"
\* with the index of the entry reached
iter_next(d, it) ==
    LET rest == {k \in Live(d) : k >= it.pos}
    IN IF it.used # dict_len(d) THEN [out |-> "RuntimeError", at |-> 0]
       ELSE IF rest = {} THEN [out |-> "StopIteration", at |-> 0]
       ELSE IF it.len = 0 THEN [out |-> "RuntimeError", at |-> 0]
       ELSE [out |-> "value", at |-> CHOOSE k \in rest : \A j \in rest : k <= j]

-----------------------------------------------------------------------------
(* The backend and the texts of the model *)

S_TodoApp == <<"T", "o", "d", "o", " ", "A", "p", "p", ":", " ">>
S_You == <<"Y", "o", "u", ":", " ">>
S_Error == <<"E", "r", "r", "o", "r", ":", " ">>

T_abc == <<"a", " ", "b", " ", "c">>
T_ab_spaced == <<" ", "a", " ", " ", "b", "\n">>
T_x == <<"x">>
T_hi == <<"h", "i">>

\* what POST /api/chat answers: a status code and, for 200, the content of
\* the message, otherwise the body
Answers ==
    {[status |-> 200, text |-> T_abc],
     [status |-> 200, text |-> T_ab_spaced],
     [status |-> 200, text |-> <<>>],
     [status |-> 500, text |-> T_x]}

\* the messages a connection sends over the WebSocket
Msgs == {<<>>, T_hi}

limit_llm_response(response) ==
    LET words == split(response)
    IN join(<<" ">>, SubSeq(words, 1,
                IF Len(words) < MAX_LLM_RESPONSE_WORDS THEN Len(words)
                ELSE MAX_LLM_RESPONSE_WORDS))

\* a client that returns the body whatever the status
chat_with_ollama_raw_body(answer) == answer.text

chat_with_ollama(answer) ==
    IF answer.status = 200 THEN answer.text
    ELSE S_Error \o Str(answer.status) \o <<",", " ">> \o answer.text

\* what a send callback is given: a Div with its text and style, or the Input
\* that clears the message field
Div(text, style) == [tag |-> "Div", text |-> text, style |-> style]
clear_input == [tag |-> "Input", text |-> <<>>, style |-> "oob"]

-----------------------------------------------------------------------------
(* The coroutines *)

\* the coroutines of a run, and the rows of the todos table
MaxTasks == 2
MaxTodos == 2
TodoIds == 1..MaxTodos

NoIter == [pos |-> 0, used |-> 0, len |-> 0]

\* the suspension points of a coroutine: its awaits
\* the suspension points were chat_with_ollama called on the loop's thread
AwaitPoints_blocking_backend == {"echo", "send", "gather", "sleep", "clear"}

AwaitPoints == {"backend", "echo", "send", "gather", "sleep", "clear"}

\* the awaits inside a loop over users.values()
LoopPoints == {"echo", "send", "clear"}

Ended == {"done", "failed"}

NoAnswer == [status |-> 0, text |-> <<>>]

\* A coroutine: generate_and_stream_ai_response ("gen"), quick_message
\* ("quick") or the ws handler ("ws"), with its locals and the point it is
\* suspended at. detached: made by asyncio.create_task. answer, held and got
\* are history: what the backend answered, the keys registered ever since the
\* loop over users.values() the task is in began, and what each connection
\* was sent.
NewTask(kind, detached, msg) ==
    [kind |-> kind, detached |-> detached, pc |-> "backend", exc |-> "",
     msg |-> msg, answer |-> NoAnswer, response |-> <<>>, words |-> <<>>,
     i |-> 0,
     it |-> NoIter, pend |-> {}, held |-> {},
     got |-> [c \in ConnIds |-> <<>>]]

\* partial_response: " ".join(words[: i + 1])
partial_response(task) == join(<<" ">>, SubSeq(task.words, 1, task.i + 1))

\* what the loop the task is in passes to each send
payload(task) ==
    CASE task.pc = "echo" -> Div(S_You \o task.msg, "USER")
      [] task.pc = "clear" -> clear_input
      [] OTHER -> Div(S_TodoApp \o partial_response(task), "MATRIX")

\* where the coroutine suspends next after a loop over users.values() ends
After(pc) ==
    CASE pc = "echo" -> "backend"
      [] pc = "send" -> "sleep"
      [] pc = "clear" -> "done"

\* await u(...) for the entry at index k of the table
deliver_at(task, d, k) ==
    [task EXCEPT !.got[d[k].key] = Append(@, payload(task)),
                 !.it = [pos |-> k + 1, used |-> task.it.used, len |-> task.it.len - 1]]

\* one turn of `for u in users.values(): await u(...)`: next(it), then the
\* body up to its await, or the statements after the loop up to the next await
loop_step(task, d) ==
    LET r == iter_next(d, task.it)
    IN CASE r.out = "RuntimeError" ->
                [task EXCEPT !.pc = "failed", !.exc = "RuntimeError",
                             !.it = NoIter, !.held = {}]
         [] r.out = "StopIteration" ->
                [task EXCEPT !.pc = After(task.pc), !.it = NoIter, !.held = {}]
         [] OTHER -> deliver_at(task, d, r.at)

\* `for u in users.values():` reached with the loop's pc: iter() and the
\* first turn
enter_loop(task, d, pc) ==
    loop_step([task EXCEPT !.pc = pc, !.it = iter_new(d), !.held = Keys(d)], d)

\* chatter.send(msg) of the routes: the list of u(Div(msg)) for the values
\* of users now, handed to asyncio.gather and awaited
gather_start(task, d) ==
    IF Live(d) = {}
    THEN [task EXCEPT !.pc = "sleep"]
    ELSE [task EXCEPT !.pc = "gather", !.pend = {d[k] : k \in Live(d)},
                      !.held = Keys(d)]

\* `for i in range(len(words)):` reached with task.i, up to the next await
run_loop(task, d) ==
    IF task.i >= Len(task.words)
    THEN IF task.kind = "ws" THEN enter_loop(task, d, "clear")
         ELSE [task EXCEPT !.pc = "done"]
    ELSE IF task.kind = "quick" THEN gather_start(task, d)
         ELSE enter_loop(task, d, "send")

\* the event loop runs a handler, or a step of task t (0 for a handler), only
\* while every other coroutine is suspended at an await or has ended
LoopFree(t) ==
    \A k \in 1..Len(tasks) : k # t => tasks[k].pc \in AwaitPoints \cup Ended

-----------------------------------------------------------------------------
(* The handlers and the steps of the coroutines *)

SystemPrompt ==
    <<"Y", "o", "u", " ", "a", "r", "e", " ", "a", " ", "T", "o", "d", "o", " ",
      "A", "p", "p", " ", "w", "i", "t", "h", " ", "a", "t", "t", "i", "t", "u",
      "d", "e", ".", " ", "B", "e", " ", "s", "a", "s", "s", "y", " ", "b", "u",
      "t", " ", "h", "e", "l", "p", "f", "u", "l", ".">>

Entry(role, content) == [role |-> role, content |-> content]

\* on_conn(ws, send): users[str(id(ws))] = send
on_conn(c, s) ==
    /\ boot = "serving"
    /\ LoopFree(0)
    /\ users' = dict_set(users, c, s)
    /\ connected' = [k \in DOMAIN connected \cup {c} |->
                        IF k = c THEN s ELSE connected[k]]
    /\ UNCHANGED <<listing, model, boot, tasks, todos, conversation>>

\* on_disconn(ws): users.pop(str(id(ws)), None)
on_disconn(c) ==
    /\ boot = "serving"
    /\ LoopFree(0)
    /\ users' = dict_pop(users, c)
    /\ tasks' = [k \in 1..Len(tasks) |->
                    IF tasks[k].pc \in LoopPoints \cup {"gather"}
                    THEN [tasks[k] EXCEPT !.held = @ \ {c}]
                    ELSE tasks[k]]
    /\ connected' = [k \in DOMAIN connected \ {c} |-> connected[k]]
    /\ UNCHANGED <<listing, model, boot, todos, conversation>>

\* asyncio.create_task(coroutine), and the handler returns
create_task(kind, limit) ==
    /\ Len(tasks) < limit
    /\ tasks' = Append(tasks, NewTask(kind, TRUE, <<>>))

\* the id todos.insert gives a new row
next_id == IF DOMAIN todos = {} THEN 1
           ELSE 1 + CHOOSE m \in DOMAIN todos : \A o \in DOMAIN todos : o <= m

\* POST /todo
post_todo(limit) ==
    /\ boot = "serving"
    /\ LoopFree(0)
    /\ next_id \in TodoIds
    /\ todos' = [o \in DOMAIN todos \cup {next_id} |->
                    IF o = next_id THEN FALSE ELSE todos[o]]
    /\ create_task("gen", limit)
    /\ UNCHANGED <<listing, model, boot, users, conversation, connected>>

\* DELETE /{tid}, for a row there is
delete(tid, limit) ==
    /\ boot = "serving"
    /\ LoopFree(0)
    /\ tid \in DOMAIN todos
    /\ todos' = [o \in DOMAIN todos \ {tid} |-> todos[o]]
    /\ create_task("gen", limit)
    /\ UNCHANGED <<listing, model, boot, users, conversation, connected>>

\* POST /toggle/{tid}, for a row there is
toggle(tid, limit) ==
    /\ boot = "serving"
    /\ LoopFree(0)
    /\ tid \in DOMAIN todos
    /\ todos' = [todos EXCEPT ![tid] = ~@]
    /\ create_task("gen", limit)
    /\ UNCHANGED <<listing, model, boot, users, conversation, connected>>

\* GET /chat/{chat_type}
chat_interface(limit) ==
    /\ boot = "serving"
    /\ LoopFree(0)
    /\ create_task("quick", limit)
    /\ UNCHANGED <<listing, model, boot, users, todos, conversation, connected>>

\* GET /action/{action_id}
perform_action(limit) ==
    /\ boot = "serving"
    /\ LoopFree(0)
    /\ create_task("quick", limit)
    /\ UNCHANGED <<listing, model, boot, users, todos, conversation, connected>>

\* POST /search
search(limit) ==
    /\ boot = "serving"
    /\ LoopFree(0)
    /\ create_task("quick", limit)
    /\ UNCHANGED <<listing, model, boot, users, todos, conversation, connected>>

\* ws(msg), up to its first await: nothing for an empty msg, otherwise the
\* user entry and the loop that echoes the message
ws(msg, limit) ==
    /\ boot = "serving"
    /\ LoopFree(0)
    /\ IF msg = <<>>
       THEN UNCHANGED <<tasks, conversation>>
       ELSE /\ Len(tasks) < limit
            /\ conversation' = Append(conversation, Entry("user", msg))
            /\ tasks' = Append(tasks, enter_loop(NewTask("ws", FALSE, msg), users, "echo"))
    /\ UNCHANGED <<listing, model, boot, users, todos, connected>>

\* a resumption that leaves the response out of the conversation
backend_returns_unrecorded(t, answer) ==
    /\ tasks[t].pc = "backend"
    /\ LoopFree(t)
    /\ LET response == chat_with_ollama(answer)
           resumed == [tasks[t] EXCEPT !.answer = answer,
                                       !.response = response,
                                       !.words = split(response),
                                       !.i = 0]
       IN tasks' = [tasks EXCEPT ![t] = run_loop(resumed, users)]
    /\ UNCHANGED <<listing, model, boot, users, todos, conversation, connected>>

\* the thread pool hands chat_with_ollama's result to task t, which runs on
\* to its next await
backend_returns(t, answer) ==
    /\ tasks[t].pc = "backend"
    /\ LoopFree(t)
    /\ LET response == chat_with_ollama(answer)
           resumed == [tasks[t] EXCEPT !.answer = answer,
                                       !.response = response,
                                       !.words = split(response),
                                       !.i = 0]
       IN /\ tasks' = [tasks EXCEPT ![t] = run_loop(resumed, users)]
          /\ conversation' = IF tasks[t].kind = "ws"
                             THEN Append(conversation, Entry("assistant", response))
                             ELSE conversation
    /\ UNCHANGED <<listing, model, boot, users, todos, connected>>

\* task t, awaiting a send inside a loop over users.values(), runs on
send_returns(t) ==
    /\ tasks[t].pc \in LoopPoints
    /\ LoopFree(t)
    /\ tasks' = [tasks EXCEPT ![t] = loop_step(tasks[t], users)]
    /\ UNCHANGED <<listing, model, boot, users, todos, conversation, connected>>

\* one of the sends asyncio.gather runs for task t delivers; after the last,
\* the task runs on to asyncio.sleep
gather_delivers(t, e) ==
    /\ tasks[t].pc = "gather"
    /\ LoopFree(t)
    /\ e \in tasks[t].pend
    /\ tasks' = [tasks EXCEPT ![t] =
                    [@ EXCEPT !.got[e.key] = Append(@, payload(tasks[t])),
                              !.pend = @ \ {e},
                              !.held = IF tasks[t].pend = {e} THEN {} ELSE @,
                              !.pc = IF tasks[t].pend = {e} THEN "sleep" ELSE "gather"]]
    /\ UNCHANGED <<listing, model, boot, users, todos, conversation, connected>>

\* asyncio.sleep(0.05) of task t is over: the next turn of the loop over words
sleep_returns(t) ==
    /\ tasks[t].pc = "sleep"
    /\ LoopFree(t)
    /\ tasks' = [tasks EXCEPT ![t] = run_loop([@ EXCEPT !.i = @ + 1], users)]
    /\ UNCHANGED <<listing, model, boot, users, todos, conversation, connected>>

\* model = get_best_model(), as the module is imported
startup ==
    /\ boot = "import"
    /\ model' = get_best_model(listing)
    /\ boot' = IF model'.exc = "" THEN "serving" ELSE "crashed"
    /\ UNCHANGED <<listing, users, tasks, todos, conversation, connected>>

-----------------------------------------------------------------------------
(* Specifications *)

Imported ==
    /\ users = <<>>
    /\ tasks = <<>>
    /\ todos = <<FALSE>>
    /\ conversation = <<Entry("system", SystemPrompt)>>
    /\ connected = <<>>

\* the server, serving with the default model; the todos table, kept in
\* data/todo.db, holds one row
Init ==
    /\ listing = [fail |-> TRUE, names |-> <<>>]
    /\ model = get_best_model(listing)
    /\ boot = "serving"
    /\ Imported

\* the steps of a server whose connections, callbacks, coroutines and
\* backend answers are drawn from the given sets
Serve(conns, sends, limit, answers) ==
    \/ \E c \in conns, s \in sends : on_conn(c, s)
    \/ \E c \in conns : on_disconn(c)
    \/ post_todo(limit)
    \/ \E tid \in TodoIds : delete(tid, limit)
    \/ \E tid \in TodoIds : toggle(tid, limit)
    \/ chat_interface(limit)
    \/ perform_action(limit)
    \/ search(limit)
    \/ \E msg \in Msgs : ws(msg, limit)
    \/ \E t \in 1..Len(tasks), answer \in answers : backend_returns(t, answer)
    \/ \E t \in 1..Len(tasks) : send_returns(t)
    \/ \E t \in 1..Len(tasks) : \E e \in tasks[t].pend : gather_delivers(t, e)
    \/ \E t \in 1..Len(tasks) : sleep_returns(t)

\* one coroutine at a time, every answer of the backend
Next == Serve(ConnIds, {1}, 1, Answers)

Spec == Init /\ [][Next]_vars

\* the import of the module, for every answer of the model listing
InitSel ==
    /\ listing \in Listings
    /\ model = ReturnsNone
    /\ boot = "import"
    /\ Imported

NextSel == startup

SpecSel == InitSel /\ [][NextSel]_vars

\* one coroutine, every callback, a one-word answer
NextReg == Serve(ConnIds, Sends, 1, {[status |-> 200, text |-> T_x]})

SpecReg == Init /\ [][NextReg]_vars

\* coroutines side by side on one connection, a one-word answer
NextConc == Serve({1}, {1}, MaxTasks, {[status |-> 200, text |-> T_x]})

SpecConc == Init /\ [][NextConc]_vars

\* a text of n words
RECURSIVE Words(_)
Words(n) == IF n = 0 THEN <<>>
            ELSE IF n = 1 THEN <<"a">>
            ELSE Words(n - 1) \o <<" ", "a">>

\* answers at and over the word limit
LongAnswers ==
    {[status |-> 200, text |-> Words(MAX_LLM_RESPONSE_WORDS)],
     [status |-> 200, text |-> Words(MAX_LLM_RESPONSE_WORDS + 1)]}

\* the sassy comments of the todo routes, with long answers and a
\* connection that stays
NextCap ==
    \/ on_conn(1, 1)
    \/ post_todo(1)
    \/ \E tid \in TodoIds : delete(tid, 1)
    \/ \E tid \in TodoIds : toggle(tid, 1)
    \/ \E t \in 1..Len(tasks), answer \in LongAnswers : backend_returns(t, answer)
    \/ \E t \in 1..Len(tasks) : send_returns(t)
    \/ \E t \in 1..Len(tasks) : sleep_returns(t)

SpecCap == Init /\ [][NextCap]_vars

\* the messages and the answers of the chat: two of each, to tell the
\* entries of handlers that run side by side apart
ChatMsgs == {<<>>, T_hi, T_x}

ChatAnswers == {[status |-> 200, text |-> T_x], [status |-> 200, text |-> T_hi]}

\* the main chat: ws handlers side by side while a connection comes and goes
NextChat ==
    \/ on_conn(1, 1)
    \/ on_disconn(1)
    \/ \E msg \in ChatMsgs : ws(msg, MaxTasks)
    \/ \E t \in 1..Len(tasks), answer \in ChatAnswers : backend_returns(t, answer)
    \/ \E t \in 1..Len(tasks) : send_returns(t)
    \/ \E t \in 1..Len(tasks) : sleep_returns(t)

SpecChat == Init /\ [][NextChat]_vars

-----------------------------------------------------------------------------
(* Properties of the chat responder *)

\* the first k words joined by single spaces, word after word
RECURSIVE FirstWords(_, _)
FirstWords(words, k) ==
    IF k = 1 THEN words[1]
    ELSE FirstWords(words, k - 1) \o <<" ">> \o words[k]

\* the k-th increment of a replay
Increment(task, k) == Div(S_TodoApp \o FirstWords(task.words, k), "MATRIX")

\* the increments among what a connection was sent
Typed(log) == SelectSeq(log, LAMBDA p : p.tag = "Div" /\ p.style = "MATRIX")

W_a == <<"a">>
W_b == <<"b">>
W_c == <<"c">>

\* C1: a replay of a 200 response of N words produces exactly N increments,
\* the k-th being the first k words joined by single spaces, for k = 1..N in
\* increasing order ("a b c" gives "a", "a b", "a b c"); no connection is
\* sent an increment twice or out of order.
C1_ReplayIsExact ==
    \A t \in 1..Len(tasks) :
        LET task == tasks[t]
            N == Len(task.words)
        IN (task.answer.status = 200 /\ task.pc \in Ended) =>
            /\ task.pc = "done"
            /\ task.i = N
            /\ task.answer.text = T_abc => task.words = <<W_a, W_b, W_c>>
            /\ \A c \in ConnIds :
                LET inc == Typed(task.got[c])
                IN /\ \A j \in 1..Len(inc) : \E k \in 1..N : inc[j] = Increment(task, k)
                   /\ \A j \in 1..(Len(inc) - 1) : \A k1, k2 \in 1..N :
                        (inc[j] = Increment(task, k1) /\ inc[j + 1] = Increment(task, k2))
                            => k1 < k2

\* C2: an increment goes to a connection if and only if the connection is
\* registered when the increment is sent: whoever is sent something is
\* registered then (or was when gather took its list), and when the loop of
\* an increment is over, every connection registered all through it has the
\* increment as the last thing it was sent.
C2_RecipientsAreTheRegistry ==
    [][\A t \in 1..Len(tasks) :
          LET old == tasks[t]
              new == tasks'[t]
          IN /\ \A c \in ConnIds :
                    new.got[c] # old.got[c] =>
                        (c \in Keys(users) \/ \E e \in old.pend : e.key = c)
             /\ (old.pc \in {"send", "gather"} /\ new.pc # old.pc) =>
                    \A c \in old.held :
                        /\ Typed(new.got[c]) # <<>>
                        /\ Typed(new.got[c])[Len(Typed(new.got[c]))] = payload(old)
      ]_vars

\* C3: a recipient that disconnects during a replay is skipped and is no
\* error: a task inside the loop of an increment, of whose recipients some
\* have left and to which none has been added, does not fail on its next turn.
C3_DisconnectIsSkipped ==
    [][\A t \in 1..Len(tasks) :
          (/\ tasks[t].pc = "send"
           /\ Keys(users) = tasks[t].held
           /\ Cardinality(tasks[t].held) < tasks[t].it.used)
              => (tasks'[t].pc # "failed" /\ tasks'[t].exc = "")
      ]_vars

ErrorTask(task) == task.answer.status \notin {0, 200}

-----------------------------------------------------------------------------
(* Properties of the model selector *)

\* the name starts with "llama", whatever the case of its letters
LlamaFamily(name) ==
    /\ Len(name) >= 5
    /\ \A k \in 1..5 : LowerCh(name[k]) = S_llama[k]

\* the llama-family names the backend lists
Candidates == {listing.names[k] : k \in {j \in 1..Len(listing.names) :
                                            LlamaFamily(listing.names[j])}}

\* C5: get_best_model never raises and returns a usable model identifier,
\* whatever the listing answers.
C5_SelectorNeverRaises ==
    boot # "import" => (model.exc = "" /\ ~model.none /\ model.val # <<>>)

\* C6: with a llama-family name listed, the selector returns a llama-family
\* name that no other candidate exceeds under the key (base version, latest
\* flag, tag version); a higher base version beats a latest tag, and latest
\* wins at equal base version.
C6_BestLlamaWins ==
    (boot # "import" /\ Candidates # {}) =>
        /\ model.exc = ""
        /\ model.val \in Candidates
        /\ \A name \in Candidates :
                KeyGt(key_func(name), key_func(model.val)) = "False"
        /\ listing.names = <<N_llama2_latest, N_llama3_1_7b, N_mistral_latest>>
                => model.val = N_llama3_1_7b
        /\ listing.names = <<N_llama2_latest, N_llama2_7b>>
                => model.val = N_llama2_latest
        /\ listing.names = <<N_llama3_10, N_llama3_9>> => model.val = N_llama3_10
        /\ listing.names = <<N_llama3_10, N_llama3_11>> => model.val = N_llama3_11

\* C7: with no llama-family name listed, the selector returns the first name
\* of the list, and "llama2" when the list is empty or the listing failed.
C7_FallbackWithoutLlama ==
    (boot # "import" /\ Candidates = {}) =>
        model = Returns(IF listing.fail \/ listing.names = <<>> THEN S_llama2
                        ELSE listing.names[1])

\* the selector has fallen back to the first of several names, none of the
\* llama family though one holds "llama"
C7_FirstOfUnfiltered ==
    /\ boot = "serving"
    /\ listing.names = <<N_mistral_latest, N_codellama_7b>>
    /\ model.val = N_mistral_latest

-----------------------------------------------------------------------------
(* Properties of the word limit, the registry and the event loop *)

\* the number of words of the response a message shows
WordsShown(p) == Len(split(From(p.text, Len(S_TodoApp) + 1)))

\* C8: no increment of a sassy comment (generate_and_stream_ai_response, as
\* the todo routes start it) holds more than MAX_LLM_RESPONSE_WORDS words.
C8_SassyCommentIsCapped ==
    \A t \in 1..Len(tasks) : \A c \in ConnIds :
        tasks[t].kind = "gen" =>
            \A j \in 1..Len(tasks[t].got[c]) :
                WordsShown(tasks[t].got[c][j]) <= MAX_LLM_RESPONSE_WORDS

\* C9: the registry maps exactly the ids whose last event is a connect, each
\* to the callback of that connect and in one entry, whatever else has run.
C9_RegistryFollowsConnects ==
    /\ Registered(users) = connected
    /\ \A j, k \in Live(users) : users[j].key = users[k].key => j = k

\* a connection has left, another is registered with the second callback,
\* and a replay has run to its end in between
C9_AfterChurn ==
    /\ \E k \in 1..Len(users) : users[k] = Dummy
    /\ connected = (2 :> 2)
    /\ \E t \in 1..Len(tasks) : tasks[t].pc = "done" /\ tasks[t].got[1] # <<>>

\* C10: while a task waits for the backend or sleeps between increments,
\* the handlers of connects and disconnects can run, routes and ws messages
\* can start further tasks, every other task can take its next step, and the
\* route that made the task has returned.
C10_WaitingBlocksNothing ==
    \A t \in 1..Len(tasks) :
        tasks[t].pc \in {"backend", "sleep"} =>
            /\ ENABLED on_conn(1, 1)
            /\ ENABLED on_disconn(1)
            /\ Len(tasks) < MaxTasks =>
                    /\ ENABLED chat_interface(MaxTasks)
                    /\ ENABLED ws(T_hi, MaxTasks)
            /\ tasks[t].kind # "ws" => tasks[t].detached
            /\ \A u \in 1..Len(tasks) :
                    u # t =>
                        /\ tasks[u].pc = "backend" =>
                                ENABLED backend_returns(u, [status |-> 200, text |-> T_x])
                        /\ tasks[u].pc \in LoopPoints => ENABLED send_returns(u)
                        /\ tasks[u].pc = "sleep" => ENABLED sleep_returns(u)
                        /\ tasks[u].pc = "gather" =>
                                \A e \in tasks[u].pend : ENABLED gather_delivers(u, e)

\* a task still waits for the backend while a task started after it has
\* sent its increment to the same connection and ended
C10_Overtaken ==
    \E t, u \in 1..Len(tasks) :
        /\ t < u
        /\ tasks[t].pc = "backend"
        /\ tasks[t].detached
        /\ tasks[u].pc = "done"
        /\ Typed(tasks[u].got[1]) # <<>>

-----------------------------------------------------------------------------
(* Properties of the main chat handler *)

IsPrefix(a, b) == Len(a) <= Len(b) /\ SubSeq(b, 1, Len(a)) = a

\* the entries of a role, in the order the conversation holds them
EntriesOf(conv, role) == SelectSeq(conv, LAMBDA e : e.role = role)

\* the ws handlers among the coroutines, in the order they began
Handlers(ts) == SelectSeq(ts, LAMBDA task : task.kind = "ws")

\* the step of the handler a message sent to a connection belongs to: the
\* echo, an increment, or the fragment that clears the input
StepOf(p) == IF p.tag = "Input" THEN 3 ELSE IF p.style = "USER" THEN 1 ELSE 2

\* what one handler has done so far is a beginning of: user entry, echo,
\* backend call, assistant entry, increments, clearing fragment
HandlerInOrder(task, conv) ==
    LET N == Len(task.words)
        answered == task.answer # NoAnswer
    IN /\ task.msg # <<>>
       /\ \E k \in 1..Len(conv) : conv[k] = Entry("user", task.msg)
       /\ task.pc = "echo" => ~answered
       /\ task.pc \in {"send", "sleep", "clear", "done"} => answered
       /\ task.pc \in {"clear", "done"} => task.i = N
       /\ answered =>
            /\ task.response = chat_with_ollama(task.answer)
            /\ \E j, k \in 1..Len(conv) :
                    /\ j < k
                    /\ conv[j] = Entry("user", task.msg)
                    /\ conv[k] = Entry("assistant", task.response)
       /\ \A c \in ConnIds :
            LET log == task.got[c]
            IN /\ \A j, k \in 1..Len(log) :
                    j < k => StepOf(log[j]) <= StepOf(log[k])
               /\ \A j \in 1..Len(log) :
                    CASE StepOf(log[j]) = 1 -> log[j] = Div(S_You \o task.msg, "USER")
                      [] StepOf(log[j]) = 2 ->
                            /\ answered
                            /\ \E n \in 1..N : log[j] = Increment(task, n)
                            /\ j < Len(log) /\ StepOf(log[j + 1]) = 2 =>
                                    \E n, m \in 1..N :
                                        /\ n <= m
                                        /\ log[j] = Increment(task, n)
                                        /\ log[j + 1] = Increment(task, m)
                      [] OTHER ->
                            /\ log[j] = clear_input
                            /\ answered
                            /\ task.i = N
                            /\ task.pc \in {"clear", "done", "failed"}

\* the conversation holds the system prompt first and only there, the
\* messages of the handlers in the order they began, none of them empty, and
\* one assistant entry for every handler the backend has answered
ConversationInOrder(ts, conv) ==
    LET hs == Handlers(ts)
    IN /\ conv # <<>>
       /\ conv[1] = Entry("system", SystemPrompt)
       /\ Len(EntriesOf(conv, "system")) = 1
       /\ EntriesOf(conv, "user") = [k \in 1..Len(hs) |-> Entry("user", hs[k].msg)]
       /\ Len(EntriesOf(conv, "assistant"))
            = Cardinality({k \in 1..Len(hs) : hs[k].answer # NoAnswer})
       /\ Len(conv) = 1 + Len(EntriesOf(conv, "user")) + Len(EntriesOf(conv, "assistant"))
       /\ \A k \in 1..Len(ts) : ts[k].kind = "ws" => HandlerInOrder(ts[k], conv)

=============================================================================
